---- MODULE Spec2Model ----
(***************************************************************************)
(* The multiplayer session server (src/unnamed/part_000): the two          *)
(* module-level maps rooms and playerRooms, the socket.io room membership  *)
(* its emits are addressed through, and the four socket handlers           *)
(* createRoom, joinRoom, move and disconnect.  Each handler runs to        *)
(* completion on the single Node.js event loop, so each is one action.     *)
(* The ChessMultiplayer component of the client                            *)
(* (src/src/components/chessmultiplayer.tsx) is modelled on one            *)
(* connection: its gameState, its event handlers and its three user        *)
(* actions.                                                                *)
(***************************************************************************)
EXTENDS Naturals, Sequences, FiniteSets, TLC

(* ----------------------------- bounds ---------------------------------- *)

\* Longest spectators array a room is driven to (the array itself is unbounded).
MaxSpectators == 1

\* socket.id values of the connections the server sees, named in the order
\* the connections arrive; an id is never reused.
SocketOrder == <<"c1", "c2", "c3">>
SocketIds == {SocketOrder[i] : i \in DOMAIN SocketOrder}

\* Values Math.random().toString(36).substring(7) returns, and that clients
\* send as roomId.
RoomIds == {"r1", "r2"}

\* Squares of the board, and the <<from, to>> pairs move requests carry.
Squares == {"e2", "e4", "e5", "e7"}
Moves == {<<"e2", "e4">>, <<"e7", "e5">>, <<"e4", "e5">>}

\* The value of an unset players.white / players.black.
undefined == "undefined"

\* Filler for the fields of a request that the event does not carry.
NoArg == "-"

(* --------------------------- rules engine ------------------------------ *)
(* chess.js is used through new Chess(), fen(), turn() and move().  The    *)
(* position is the e-file of the board with one pawn each; fen() is the    *)
(* whole position record.                                                  *)

Chess == [board |-> [s \in Squares |->
                        IF s = "e2" THEN "w" ELSE IF s = "e7" THEN "b" ELSE "-"],
          turn  |-> "w"]

PawnSteps(colour) ==
    IF colour = "w" THEN {<<"e2", "e4">>, <<"e4", "e5">>}
                    ELSE {<<"e7", "e5">>, <<"e5", "e4">>}

\* game.move({from, to, promotion: 'q'}) returns a move (does not throw, is
\* not null): the piece on from belongs to the side to move and may step to to.
Accepts(game, from, to) ==
    /\ game.board[from] = game.turn
    /\ game.board[to] = "-"
    /\ <<from, to>> \in PawnSteps(game.turn)

\* The position after an accepted game.move.
AfterMove(game, from, to) ==
    [board |-> [game.board EXCEPT ![from] = "-", ![to] = game.turn],
     turn  |-> IF game.turn = "w" THEN "b" ELSE "w"]

\* game.turn()
turn(game) == game.turn

\* game.fen()
fen(game) == game

(* ------------------------------- state --------------------------------- *)

VARIABLES
    rooms,        \* const rooms = new Map(): roomId -> room
    playerRooms,  \* const playerRooms = new Map(): socket.id -> roomId
    sockets,      \* socket.id -> "new" | "open" | "closed"
    sioRooms,     \* socket.io adapter: room name -> set of joined socket ids
    outbox,       \* the messages the last handler emitted
    req,          \* the event the last handler was run for
    gameState     \* useState<GameState> of the ChessMultiplayer component
                  \* mounted on the connection ClientId

vars == <<rooms, playerRooms, sockets, sioRooms, outbox, req>>

\* JavaScript truthiness of a string / of a seat.
Truthy(v) == v # "" /\ v # undefined

\* Map helpers: set, delete.
MapSet(map, k, v) == [x \in DOMAIN map \cup {k} |-> IF x = k THEN v ELSE map[x]]
MapDelete(map, k) == [x \in DOMAIN map \ {k} |-> map[x]]

EmptyMap == [x \in {} |-> x]

Request(op, id, roomId, from, to) ==
    [op |-> op, id |-> id, roomId |-> roomId, from |-> from, to |-> to]

\* One emitted message as one recipient gets it; a payload that the source
\* sends as a bare string is the one field of its record.
Msg(recipient, event, data) == [to |-> recipient, event |-> event, data |-> data]

\* socket.emit(event, data): to the socket the handler runs for.
SocketEmit(id, event, data) == {Msg(id, event, data)}

\* io.to(roomId).emit(event, data): to every socket that the adapter has
\* joined to the room when the emit runs.
IoToEmit(adapter, roomId, event, data) ==
    {Msg(c, event, data) : c \in adapter[roomId]}

\* socket.to(target).emit(event, data) with target a socket id: every socket
\* has joined the room named by its own id until it disconnects, and the
\* sender is excluded.
SocketToEmit(id, target, event, data) ==
    IF target \in SocketIds /\ sockets[target] = "open" /\ target # id
    THEN {Msg(target, event, data)} ELSE {}

\* The falsy value the component initialises its fields with.
null == "null"

\* socket.id of the connection the ChessMultiplayer component opens.
ClientId == "c1"

\* useState<GameState>({...}) of chessmultiplayer.tsx:16-22.
InitialGameState ==
    [game |-> Chess, roomId |-> null, playerColor |-> null,
     isSpectator |-> FALSE, opponent |-> null]

Init ==
    /\ gameState = InitialGameState
    /\ rooms = EmptyMap
    /\ playerRooms = EmptyMap
    /\ sockets = [c \in SocketIds |-> "new"]
    /\ sioRooms = [r \in RoomIds |-> {}]
    /\ outbox = {}
    /\ req = Request("listen", NoArg, NoArg, NoArg, NoArg)

(* ------------------------------ handlers ------------------------------- *)

\* io.on("connection", (socket) => ...): the next connection arrives.
connection(id) ==
    /\ sockets[id] = "new"
    /\ \A i, j \in DOMAIN SocketOrder :
          (i < j /\ SocketOrder[j] = id) => sockets[SocketOrder[i]] # "new"
    /\ sockets' = [sockets EXCEPT ![id] = "open"]
    /\ outbox' = {}
    /\ req' = Request("connection", id, NoArg, NoArg, NoArg)
    /\ UNCHANGED <<rooms, playerRooms, sioRooms>>

\* The room object createRoom builds.
NewRoom(roomId) ==
    [id |-> roomId,
     players |-> [white |-> undefined, black |-> undefined],
     game |-> Chess,
     spectators |-> <<>>]

\* createRoom that first takes the creator out of the seats it holds.
createRoom_LeavesFirst(id, roomId) ==
    /\ sockets[id] = "open"
    /\ rooms' = MapSet([x \in DOMAIN rooms |->
                           [rooms[x] EXCEPT
                               !.players.white =
                                   IF @ = id THEN undefined ELSE @,
                               !.players.black =
                                   IF @ = id THEN undefined ELSE @]],
                       roomId, NewRoom(roomId))
    /\ sioRooms' = [sioRooms EXCEPT ![roomId] = @ \cup {id}]
    /\ outbox' = SocketEmit(id, "roomCreated", [roomId |-> roomId])
    /\ req' = Request("createRoom", id, roomId, NoArg, NoArg)
    /\ UNCHANGED <<playerRooms, sockets>>

\* createRoom that also seats the creator as white, as a join would.
createRoom_Seated(id, roomId) ==
    /\ sockets[id] = "open"
    /\ rooms' = MapSet(rooms, roomId,
                       [NewRoom(roomId) EXCEPT !.players.white = id])
    /\ playerRooms' = MapSet(playerRooms, id, roomId)
    /\ sioRooms' = [sioRooms EXCEPT ![roomId] = @ \cup {id}]
    /\ outbox' = SocketEmit(id, "roomCreated", [roomId |-> roomId])
    /\ req' = Request("createRoom", id, roomId, NoArg, NoArg)
    /\ UNCHANGED sockets

\* socket.on("createRoom"): roomId is the value Math.random produced.
createRoom(id, roomId) ==
    /\ sockets[id] = "open"
    /\ rooms' = MapSet(rooms, roomId, NewRoom(roomId))
    /\ sioRooms' = [sioRooms EXCEPT ![roomId] = @ \cup {id}]
    /\ outbox' = SocketEmit(id, "roomCreated", [roomId |-> roomId])
    /\ req' = Request("createRoom", id, roomId, NoArg, NoArg)
    /\ UNCHANGED <<playerRooms, sockets>>

\* JoinBranch without the test of the black seat.
JoinBranch_NoBlackTest(room) ==
    IF ~Truthy(room.players.white) THEN "white" ELSE "black"

\* JoinBranch with no test of either seat.
JoinBranch_NoSeatTest(room) == "white"

\* JoinBranch with the two seat tests in the other order.
JoinBranch_BlackFirst(room) ==
    IF ~Truthy(room.players.black) THEN "black"
    ELSE IF ~Truthy(room.players.white) THEN "white"
    ELSE "spectator"

\* Which branch of joinRoom's if / else if / else a room takes (lines 43-77).
JoinBranch(room) ==
    IF ~Truthy(room.players.white) THEN "white"
    ELSE IF ~Truthy(room.players.black) THEN "black"
    ELSE "spectator"

\* PlayerJoined with the position of a new game in place of currentFen.
PlayerJoined_NewGame(color, playerId, currentFen, orientation) ==
    [color |-> color, playerId |-> playerId, fen |-> fen(Chess),
     orientation |-> orientation]

\* The payload of playerJoined.
PlayerJoined(color, playerId, currentFen, orientation) ==
    [color |-> color, playerId |-> playerId, fen |-> currentFen,
     orientation |-> orientation]

\* JoinMissing with the playerRooms.set of the seat branches done first.
JoinMissing_Binds(id, roomId) ==
    /\ outbox' = SocketEmit(id, "error", [message |-> "Room not found"])
    /\ playerRooms' = MapSet(playerRooms, id, roomId)
    /\ UNCHANGED <<rooms, sioRooms>>

\* joinRoom when rooms.get(roomId) is undefined (lines 35-39).
JoinMissing(id, roomId) ==
    /\ outbox' = SocketEmit(id, "error", [message |-> "Room not found"])
    /\ UNCHANGED <<rooms, playerRooms, sioRooms>>

\* joinRoom when the room exists (lines 41-77).
JoinExisting(id, roomId) ==
    LET room == rooms[roomId]
        currentFen == fen(room.game)
        branch == JoinBranch(room)
    IN  /\ sioRooms' = [sioRooms EXCEPT ![roomId] = @ \cup {id}]
        /\ CASE branch = "white" ->
                  /\ rooms' = [rooms EXCEPT ![roomId].players.white = id]
                  /\ playerRooms' = MapSet(playerRooms, id, roomId)
                  /\ outbox' = SocketEmit(id, "playerJoined",
                                   PlayerJoined("white", id, currentFen, "white"))
             [] branch = "black" ->
                  /\ rooms' = [rooms EXCEPT ![roomId].players.black = id]
                  /\ playerRooms' = MapSet(playerRooms, id, roomId)
                  /\ outbox' =
                        SocketEmit(id, "playerJoined",
                            PlayerJoined("black", id, currentFen, "black"))
                        \cup SocketToEmit(id, room.players.white, "playerJoined",
                            PlayerJoined("black", id, currentFen, "white"))
             [] OTHER ->
                  /\ Len(room.spectators) < MaxSpectators
                  /\ rooms' = [rooms EXCEPT
                                  ![roomId].spectators = Append(@, id)]
                  /\ outbox' = SocketEmit(id, "joinedAsSpectator",
                                   [fen |-> currentFen])
                  /\ UNCHANGED playerRooms

\* socket.on("joinRoom", (roomId) => ...)
joinRoom(id, roomId) ==
    /\ sockets[id] = "open"
    /\ req' = Request("joinRoom", id, roomId, NoArg, NoArg)
    /\ UNCHANGED sockets
    /\ IF roomId \notin DOMAIN rooms
       THEN JoinMissing(id, roomId)
       ELSE JoinExisting(id, roomId)

\* OnTurn with the comparison with game.turn() made for black only.
OnTurn_WhiteAnyTime(room, id) ==
    LET isWhite == room.players.white = id
        isBlack == room.players.black = id
    IN  isWhite \/ (isBlack /\ turn(room.game) = "b")

\* OnTurn without the comparison with game.turn().
OnTurn_AnySeat(room, id) ==
    room.players.white = id \/ room.players.black = id

\* Lines 84-88: the requester holds the seat of the side to move.
OnTurn(room, id) ==
    LET isWhite == room.players.white = id
        isBlack == room.players.black = id
    IN  \/ (isWhite /\ turn(room.game) = "w")
        \/ (isBlack /\ turn(room.game) = "b")

\* MoveApplies without the test of what game.move returns.
MoveApplies_NoEngine(id, from, to, roomId) ==
    /\ roomId \in DOMAIN rooms
    /\ OnTurn(rooms[roomId], id)

\* Whether the move handler reaches the emit of line 92.
MoveApplies(id, from, to, roomId) ==
    /\ roomId \in DOMAIN rooms
    /\ OnTurn(rooms[roomId], id)
    /\ Accepts(rooms[roomId].game, from, to)

\* The payload of moveMade (lines 92-97), built after game.move has run.
MoveMade(from, to, game) ==
    [from |-> from, to |-> to, fen |-> fen(game), turn |-> turn(game)]

\* socket.on("move", ({ from, to, roomId }) => ...)
move(id, from, to, roomId) ==
    /\ sockets[id] = "open"
    /\ req' = Request("move", id, roomId, from, to)
    /\ UNCHANGED <<playerRooms, sockets, sioRooms>>
    /\ IF MoveApplies(id, from, to, roomId)
       THEN LET game == AfterMove(rooms[roomId].game, from, to)
            IN  /\ rooms' = [rooms EXCEPT ![roomId].game = game]
                /\ outbox' = IoToEmit(sioRooms, roomId, "moveMade",
                                           MoveMade(from, to, game))
       ELSE /\ outbox' = {}
            /\ UNCHANGED rooms

\* ClearRole with three ifs in place of if / else if / else.
ClearRole_EveryRole(room, id) ==
    [room EXCEPT
        !.players.white = IF @ = id THEN undefined ELSE @,
        !.players.black = IF @ = id THEN undefined ELSE @,
        !.spectators = SelectSeq(@, LAMBDA x : x # id)]

\* Lines 110-116: the one role the disconnect handler clears.
ClearRole(room, id) ==
    IF room.players.white = id
    THEN [room EXCEPT !.players.white = undefined]
    ELSE IF room.players.black = id
    THEN [room EXCEPT !.players.black = undefined]
    ELSE [room EXCEPT !.spectators = SelectSeq(@, LAMBDA x : x # id)]

\* NobodyLeft without the test of the spectators array.
NobodyLeft_SeatsOnly(room) ==
    ~Truthy(room.players.white) /\ ~Truthy(room.players.black)

\* Line 118: the test that decides rooms.delete.
NobodyLeft(room) ==
    /\ ~Truthy(room.players.white)
    /\ ~Truthy(room.players.black)
    /\ Len(room.spectators) = 0

\* socket.on("disconnect", () => ...): socket.io has taken the socket out of
\* every room before the handler runs.
disconnect(id) ==
    LET left == [r \in RoomIds |-> sioRooms[r] \ {id}]
        bound == id \in DOMAIN playerRooms /\ Truthy(playerRooms[id])
        roomId == playerRooms[id]
    IN  /\ sockets[id] = "open"
        /\ sockets' = [sockets EXCEPT ![id] = "closed"]
        /\ sioRooms' = left
        /\ req' = Request("disconnect", id, NoArg, NoArg, NoArg)
        /\ IF ~bound
           THEN /\ outbox' = {}
                /\ UNCHANGED <<rooms, playerRooms>>
           ELSE /\ playerRooms' = MapDelete(playerRooms, id)
                /\ IF roomId \notin DOMAIN rooms
                   THEN /\ outbox' = {}
                        /\ UNCHANGED rooms
                   ELSE LET room == ClearRole(rooms[roomId], id)
                        IN  IF NobodyLeft(room)
                            THEN /\ rooms' = MapDelete(rooms, roomId)
                                 /\ outbox' = {}
                            ELSE /\ rooms' = [rooms EXCEPT ![roomId] = room]
                                 /\ outbox' = IoToEmit(left, roomId, "playerLeft",
                                                       [playerId |-> id])

\* createRoom when Math.random yields an identifier that no session in the
\* registry has.
createRoomFresh(id, roomId) ==
    /\ roomId \notin DOMAIN rooms
    /\ createRoom(id, roomId)

\* The requests of the connections of ids other than createRoom; they name
\* any room id.  The connections are driven as bare sockets: the state of the
\* component is not involved.
Requests(ids) ==
    \/ \E id \in ids : connection(id) /\ UNCHANGED gameState
    \/ \E id \in ids, roomId \in RoomIds :
           joinRoom(id, roomId) /\ UNCHANGED gameState
    \/ \E id \in ids, roomId \in RoomIds, m \in Moves :
           move(id, m[1], m[2], roomId) /\ UNCHANGED gameState
    \/ \E id \in ids : disconnect(id) /\ UNCHANGED gameState

\* Three connections and one session identifier, which Math.random may
\* yield again while its session is in the registry.
Next ==
    \/ \E id \in SocketIds : createRoom(id, "r1") /\ UNCHANGED gameState
    \/ Requests(SocketIds)

Spec == Init /\ [][Next]_vars

\* The same, with Math.random never yielding the identifier of a session
\* that is in the registry.
NextFresh ==
    \/ \E id \in SocketIds :
           createRoomFresh(id, "r1") /\ UNCHANGED gameState
    \/ Requests(SocketIds)

SpecFresh == Init /\ [][NextFresh]_vars

\* Two connections and two session identifiers.
NextRooms ==
    \/ \E id \in {"c1", "c2"}, roomId \in RoomIds :
           createRoom(id, roomId) /\ UNCHANGED gameState
    \/ Requests({"c1", "c2"})

SpecRooms == Init /\ [][NextRooms]_vars

(* ------------------------------ component ------------------------------ *)
(* src/src/components/chessmultiplayer.tsx, mounted on the connection      *)
(* ClientId.  An event the server emits to ClientId is handled by the      *)
(* component in the step of the emit.                                      *)

\* What !v tests.
Falsy(v) == v \in {null, undefined, ""}

\* new Chess(fen) / newGame.load(fen): the position the record describes.
Load(currentFen) == currentFen

\* handlers.roomCreated (lines 49-55)
roomCreated(prev, data) ==
    [prev EXCEPT !.roomId = data.roomId, !.game = Chess]

\* handlers.playerJoined (lines 57-91); the fen of a position is never
\* the empty string, so the if (fen) of line 60 is taken.
playerJoined(prev, data) ==
    [prev EXCEPT
        !.game = Load(data.fen),
        !.playerColor = IF data.playerId = ClientId THEN data.color ELSE @,
        !.opponent = IF data.playerId # ClientId THEN data.playerId ELSE @]

\* handlers.moveMade (lines 93-103)
moveMade(prev, data) == [prev EXCEPT !.game = Load(data.fen)]

\* handlers.playerLeft (lines 105-113)
playerLeft(prev, data) ==
    IF prev.opponent = data.playerId
    THEN [prev EXCEPT !.opponent = null]
    ELSE prev

\* handlers.error (lines 115-118)
error(prev, data) == [prev EXCEPT !.roomId = null]

\* handlers.joinedAsSpectator (lines 120-135)
joinedAsSpectator(prev, data) ==
    [prev EXCEPT !.isSpectator = TRUE, !.game = Load(data.fen)]

\* socket.on(event, handler) of lines 139-141.
Handle(prev, m) ==
    CASE m.event = "roomCreated" -> roomCreated(prev, m.data)
      [] m.event = "playerJoined" -> playerJoined(prev, m.data)
      [] m.event = "moveMade" -> moveMade(prev, m.data)
      [] m.event = "playerLeft" -> playerLeft(prev, m.data)
      [] m.event = "error" -> error(prev, m.data)
      [] m.event = "joinedAsSpectator" -> joinedAsSpectator(prev, m.data)

\* The state of the component once it has handled what a server handler
\* emitted to ClientId (a handler emits at most one message to a socket).
Deliver(prev, msgs) ==
    LET mine == {m \in msgs : m.to = ClientId}
    IN  IF mine = {} THEN prev ELSE Handle(prev, CHOOSE m \in mine : TRUE)

\* Line 208: the Create New Game and Join Game controls are rendered when
\* roomId is not set, the board (and with it onDrop) when it is.
ControlsShown == Falsy(gameState.roomId)
BoardShown == ~Falsy(gameState.roomId)

\* The guard of onDrop (line 162) is passed.
OnDropGuard(gs) ==
    ~(Falsy(gs.roomId) \/ Falsy(gs.playerColor) \/ gs.isSpectator)

\* useEffect on mount: io('http://localhost:3001')
mount ==
    /\ connection(ClientId)
    /\ UNCHANGED gameState

\* The cleanup of useEffect: socket.disconnect()
unmount ==
    /\ disconnect(ClientId)
    /\ UNCHANGED gameState

\* The button Create New Game: createRoom() of line 153, and the component's
\* handling of the server's reply.
CreateNewGame(roomId) ==
    /\ ControlsShown
    /\ createRoom(ClientId, roomId)
    /\ gameState' = Deliver(gameState, outbox')

\* The button Join Game with roomIdInput = roomId: joinRoom(roomId) of
\* line 157, and the component's handling of the server's reply.
JoinGame(roomId) ==
    /\ ControlsShown
    /\ ~Falsy(roomId)
    /\ joinRoom(ClientId, roomId)
    /\ gameState' = Deliver(gameState, outbox')

\* onDrop (lines 161-192) on a piece of the rendered board, on the path
\* that reaches the emit of line 179: the guard is passed and game.move,
\* which changes gameState.game in place, returns a move.  On the other
\* paths the component only sets its status message.
onDrop(sourceSquare, targetSquare) ==
    /\ BoardShown
    /\ OnDropGuard(gameState)
    /\ Accepts(gameState.game, sourceSquare, targetSquare)
    /\ move(ClientId, sourceSquare, targetSquare, gameState.roomId)
    /\ gameState' =
          Deliver([gameState EXCEPT
                      !.game = AfterMove(@, sourceSquare, targetSquare)],
                  outbox')

\* A request of another connection, and the component's handling of what
\* the server emits to ClientId for it.
Others(ids) ==
    \/ \E id \in ids : connection(id) /\ UNCHANGED gameState
    \/ \E id \in ids :
           createRoom(id, "r1") /\ gameState' = Deliver(gameState, outbox')
    \/ \E id \in ids, roomId \in RoomIds :
           joinRoom(id, roomId) /\ gameState' = Deliver(gameState, outbox')
    \/ \E id \in ids, roomId \in RoomIds, m \in Moves :
           /\ move(id, m[1], m[2], roomId)
           /\ gameState' = Deliver(gameState, outbox')
    \/ \E id \in ids : disconnect(id) /\ gameState' = Deliver(gameState, outbox')

\* The component on the first connection, a bare socket on the second, and
\* two session identifiers, of which the bare socket's createRoom gets the
\* first and the component's either.
NextClient ==
    \/ mount
    \/ \E roomId \in RoomIds : CreateNewGame(roomId)
    \/ \E roomId \in RoomIds : JoinGame(roomId)
    \/ \E m \in Moves : onDrop(m[1], m[2])
    \/ unmount
    \/ Others({"c2"})

varsClient == <<vars, gameState>>

SpecClient == Init /\ [][NextClient]_varsClient

(* ------------------------ vocabulary of the claims --------------------- *)

Range(seq) == {seq[i] : i \in DOMAIN seq}

\* The socket ids a room's seats hold.
SeatHolders(room) == {room.players.white, room.players.black} \ {undefined}

\* The socket ids a room names in any role.
Occupants(room) == SeatHolders(room) \cup Range(room.spectators)

\* The colours of the seats id holds in room.
SeatColours(room, id) ==
    {colour \in {"w", "b"} :
        \/ colour = "w" /\ room.players.white = id
        \/ colour = "b" /\ room.players.black = id}

\* The messages of one event among a set of messages.
Of(event, msgs) == {m \in msgs : m.event = event}

(* -------------------------------- C1 ----------------------------------- *)

\* A move request meets the three conditions of the contract: the requester
\* holds a seat in the named session, the side to move is the colour of a
\* seat it holds, and the rules engine accepts the move.
MoveIsDue(r) ==
    /\ r.roomId \in DOMAIN rooms
    /\ turn(rooms[r.roomId].game) \in SeatColours(rooms[r.roomId], r.id)
    /\ Accepts(rooms[r.roomId].game, r.from, r.to)

\* C1: a move request changes the named session's position and produces a
\* moveMade broadcast if and only if the requester holds a seat there, the
\* side to move is that seat's colour and the engine accepts the move; in
\* every other case no session's position changes and no moveMade is emitted.
C1_MoveAppliedIffDue ==
    [][req'.op = "move" =>
        LET r == req'
            changed == /\ r.roomId \in DOMAIN rooms
                       /\ r.roomId \in DOMAIN rooms'
                       /\ rooms'[r.roomId].game # rooms[r.roomId].game
            emitted == Of("moveMade", outbox') # {}
        IN  /\ MoveIsDue(r) <=> (changed /\ emitted)
            /\ ~MoveIsDue(r) =>
                  /\ ~emitted
                  /\ DOMAIN rooms' = DOMAIN rooms
                  /\ \A x \in DOMAIN rooms : rooms'[x].game = rooms[x].game
    ]_vars

\* Black's reply has just been applied and broadcast.
C1_Witness ==
    /\ req.op = "move"
    /\ req.roomId \in DOMAIN rooms
    /\ rooms[req.roomId].players.black = req.id
    /\ rooms[req.roomId].players.white # req.id
    /\ \E m \in Of("moveMade", outbox) : m.data.turn = "w"

(* -------------------------------- C2 ----------------------------------- *)

\* C2: at most two connections hold a colour seat of a session, and a join
\* to a session whose two seats are both occupied leaves both seats as they
\* are and makes the requester a spectator.
C2_ThirdJoinerObserves ==
    [][/\ \A x \in DOMAIN rooms' : Cardinality(SeatHolders(rooms'[x])) <= 2
       /\ (/\ req'.op = "joinRoom"
           /\ req'.roomId \in DOMAIN rooms
           /\ rooms[req'.roomId].players.white # undefined
           /\ rooms[req'.roomId].players.black # undefined)
          => /\ req'.roomId \in DOMAIN rooms'
             /\ rooms'[req'.roomId].players = rooms[req'.roomId].players
             /\ rooms'[req'.roomId].spectators =
                   Append(rooms[req'.roomId].spectators, req'.id)
             /\ Of("joinedAsSpectator", outbox') =
                   {m \in outbox' : m.to = req'.id}
             /\ Of("joinedAsSpectator", outbox') # {}
             /\ Of("playerJoined", outbox') = {}
    ]_vars

\* A third connection has just joined a session with two other seat holders.
C2_Witness ==
    /\ req.op = "joinRoom"
    /\ req.roomId \in DOMAIN rooms
    /\ Cardinality(SeatHolders(rooms[req.roomId]) \cup {req.id}) = 3
    /\ req.id \in Range(rooms[req.roomId].spectators)
    /\ Of("joinedAsSpectator", outbox) # {}

(* -------------------------------- C3 ----------------------------------- *)

\* The room the disconnect handler of socket id resolves, if any.
BoundTo(id, roomId) ==
    /\ id \in DOMAIN playerRooms
    /\ playerRooms[id] = roomId
    /\ Truthy(roomId)

\* C3: a session leaves the registry only in the step of a departure from it
\* after which nobody else occupies a seat or is a spectator; and a departure
\* from a session that stays in the registry leaves a seat or spectator in it.
C3_DestroyedIffEmptied ==
    [][\A x \in RoomIds :
        /\ (x \in DOMAIN rooms /\ x \notin DOMAIN rooms')
              => /\ req'.op = "disconnect"
                 /\ BoundTo(req'.id, x)
                 /\ Occupants(rooms[x]) \subseteq {req'.id}
        /\ (/\ req'.op = "disconnect"
            /\ BoundTo(req'.id, x)
            /\ x \in DOMAIN rooms
            /\ x \in DOMAIN rooms')
              => Occupants(rooms'[x]) # {}
    ]_vars

\* The only departure so far has removed a session that was created and
\* that another connection is still subscribed to.
C3_Witness ==
    /\ req.op = "disconnect"
    /\ Cardinality({c \in SocketIds : sockets[c] = "closed"}) = 1
    /\ "r1" \notin DOMAIN rooms
    /\ sioRooms["r1"] # {}

(* -------------------------------- C4 ----------------------------------- *)

\* C4: once every connection has disconnected, the registry holds no session
\* that a connection joined: every session still in it has empty seats and
\* no spectators.
C4_NoSessionOutlivesItsOccupants ==
    (\A c \in SocketIds : sockets[c] = "closed")
        => \A x \in DOMAIN rooms : Occupants(rooms[x]) = {}

(* -------------------------------- C5 ----------------------------------- *)

\* C5: within a session a connection holds at most one role: not both
\* seats, and not a seat together with a place among the spectators.
C5_OneRolePerConnection ==
    \A x \in DOMAIN rooms : \A c \in SocketIds :
        /\ ~(rooms[x].players.white = c /\ rooms[x].players.black = c)
        /\ ~(c \in SeatHolders(rooms[x]) /\ c \in Range(rooms[x].spectators))

(* -------------------------------- C6 ----------------------------------- *)

\* C6: playerRooms has an entry for a connection exactly when that
\* connection holds a seat or is a spectator in some session of the registry.
C6_IndexIffOccupant ==
    \A c \in SocketIds :
        c \in DOMAIN playerRooms
            <=> \E x \in DOMAIN rooms : c \in Occupants(rooms[x])

(* -------------------------------- C7 ----------------------------------- *)

\* C7: a disconnected connection is in no seat, among no session's
\* spectators and has no entry in playerRooms.
C7_DepartedHoldsNothing ==
    \A c \in SocketIds :
        sockets[c] = "closed"
            => /\ c \notin DOMAIN playerRooms
               /\ \A x \in DOMAIN rooms : c \notin Occupants(rooms[x])

(* -------------------------------- C8 ----------------------------------- *)

\* C8: a join naming a session that is not in the registry leaves rooms and
\* playerRooms as they are and emits one message only, the error
\* "Room not found", to the requester.
C8_JoinUnknownOnlyReplies ==
    [][(req'.op = "joinRoom" /\ req'.roomId \notin DOMAIN rooms)
          => /\ rooms' = rooms
             /\ playerRooms' = playerRooms
             /\ outbox' = {Msg(req'.id, "error", [message |-> "Room not found"])}
    ]_vars

\* A join has just failed on an identifier whose session was destroyed and
\* to whose broadcasts another connection is still subscribed.
C8_Witness ==
    /\ req.op = "joinRoom"
    /\ req.roomId \notin DOMAIN rooms
    /\ sioRooms[req.roomId] \ {req.id} # {}
    /\ Of("error", outbox) # {}

(* -------------------------------- C9 ----------------------------------- *)

\* C9: when a move is accepted, every seat holder and every spectator of the
\* session is sent moveMade, and every moveMade sent carries the request's
\* from and to, the session's position after the move and its side to move.
C9_EveryOccupantGetsTheMove ==
    (req.op = "move" /\ Of("moveMade", outbox) # {})
        => LET room == rooms[req.roomId]
               payload == [from |-> req.from, to |-> req.to,
                           fen |-> fen(room.game), turn |-> turn(room.game)]
           IN  /\ \A c \in Occupants(room) : Msg(c, "moveMade", payload) \in outbox
               /\ \A m \in Of("moveMade", outbox) : m.data = payload

(* -------------------------------- C10 ---------------------------------- *)

\* C10: a moveMade or playerLeft about a session goes only to the requester
\* and to connections that at that moment hold a seat or are spectators of
\* that session.
C10_BroadcastsStayInTheSession ==
    [][\A m \in Of("moveMade", outbox') \cup Of("playerLeft", outbox') :
          LET x == IF req'.op = "move" THEN req'.roomId ELSE playerRooms[req'.id]
          IN  \/ m.to = req'.id
              \/ (x \in DOMAIN rooms' /\ m.to \in Occupants(rooms'[x]))
    ]_vars

(* -------------------------------- C11 ---------------------------------- *)

\* C11: when a connection that is a seat holder or a spectator of a session
\* disconnects and the session stays in the registry, every connected
\* socket that is still a seat holder or spectator of it is sent playerLeft
\* with the id of the one that left.
C11_RemainingAreToldOfTheDeparture ==
    [][req'.op = "disconnect" =>
        \A x \in DOMAIN rooms :
            (req'.id \in Occupants(rooms[x]) /\ x \in DOMAIN rooms')
                => \A c \in Occupants(rooms'[x]) \ {req'.id} :
                       sockets'[c] = "open"
                           => Msg(c, "playerLeft", [playerId |-> req'.id])
                                  \in outbox'
    ]_vars

(* -------------------------------- C12 ---------------------------------- *)

\* C12: a move request that is rejected (the requester holds no seat in the
\* named session, which covers spectators and sessions not in the registry;
\* or it is not the requester's turn; or the engine refuses the move) sends
\* no message to any connection and changes neither rooms nor playerRooms.
C12_RejectedMoveIsDropped ==
    [][(req'.op = "move" /\ ~MoveIsDue(req'))
          => /\ outbox' = {}
             /\ rooms' = rooms
             /\ playerRooms' = playerRooms
    ]_vars

\* The seat holder whose turn it is has just sent a move the engine
\* refuses, in a session where both seats are taken by different sockets.
C12_Witness ==
    /\ req.op = "move"
    /\ req.roomId \in DOMAIN rooms
    /\ Cardinality(SeatHolders(rooms[req.roomId])) = 2
    /\ turn(rooms[req.roomId].game) \in SeatColours(rooms[req.roomId], req.id)
    /\ ~Accepts(rooms[req.roomId].game, req.from, req.to)
    /\ outbox = {}

(* -------------------------------- C13 ---------------------------------- *)

\* C13: a join to a session of the registry whose white seat is empty makes
\* the requester white, whatever the black seat and the spectators are,
\* leaves the rest of the session as it is, and sends one message only: the
\* playerJoined reply to the requester with colour white, the session's
\* current position and orientation white.
C13_EmptyWhiteSeatGoesToJoiner ==
    [][(/\ req'.op = "joinRoom"
        /\ req'.roomId \in DOMAIN rooms
        /\ rooms[req'.roomId].players.white = undefined)
          => /\ rooms' = [rooms EXCEPT
                             ![req'.roomId].players.white = req'.id]
             /\ outbox' =
                   {Msg(req'.id, "playerJoined",
                        [color |-> "white", playerId |-> req'.id,
                         fen |-> rooms[req'.roomId].game,
                         orientation |-> "white"])}
    ]_vars

\* A connection has just taken the white seat of a session in which another
\* connection is black and a move has been played.
C13_Witness ==
    /\ req.op = "joinRoom"
    /\ req.roomId \in DOMAIN rooms
    /\ rooms[req.roomId].players.white = req.id
    /\ rooms[req.roomId].players.black \notin {undefined, req.id}
    /\ rooms[req.roomId].game # Chess
    /\ \E m \in Of("playerJoined", outbox) : m.data.color = "white"

(* -------------------------------- C14 ---------------------------------- *)

\* C14: a join that takes the black seat sends exactly two messages: the
\* playerJoined reply to the requester (colour black, the current position,
\* orientation black) and one playerJoined to the socket in the white seat
\* that carries the joiner's id; nobody else is sent anything.
C14_BlackJoinSendsReplyAndNotice ==
    [][(/\ req'.op = "joinRoom"
        /\ req'.roomId \in DOMAIN rooms
        /\ rooms[req'.roomId].players.white # undefined
        /\ rooms[req'.roomId].players.black = undefined)
          => LET room == rooms[req'.roomId]
                 reply == Msg(req'.id, "playerJoined",
                              [color |-> "black", playerId |-> req'.id,
                               fen |-> room.game, orientation |-> "black"])
                 notices == {m \in outbox' : m # reply}
             IN  /\ rooms'[req'.roomId].players.black = req'.id
                 /\ reply \in outbox'
                 /\ Cardinality(outbox') = 2
                 /\ \A m \in notices :
                       /\ m.to = room.players.white
                       /\ m.event = "playerJoined"
                       /\ m.data.playerId = req'.id
    ]_vars

(* -------------------------------- C15 ---------------------------------- *)

\* C15: every reply to a join that succeeds, playerJoined to the joiner as
\* well as joinedAsSpectator, carries the position the session has at the
\* moment of the join, with every accepted move applied.
C15_JoinReplyCarriesCurrentPosition ==
    [][(req'.op = "joinRoom" /\ req'.roomId \in DOMAIN rooms)
          => LET replies == {m \in outbox' :
                                /\ m.to = req'.id
                                /\ m.event \in {"playerJoined",
                                                "joinedAsSpectator"}}
             IN  \A m \in replies :
                     /\ m.data.fen = rooms[req'.roomId].game
                     /\ m.data.fen = rooms'[req'.roomId].game
    ]_vars

\* A connection has just been seated in a session after both sides had
\* moved, and the reply carries that position.
C15_Witness ==
    /\ req.op = "joinRoom"
    /\ req.roomId \in DOMAIN rooms
    /\ rooms[req.roomId].game.board["e4"] = "w"
    /\ rooms[req.roomId].game.board["e5"] = "b"
    /\ \E m \in Of("playerJoined", outbox) :
          m.to = req.id /\ m.data.fen = rooms[req.roomId].game

(* -------------------------------- C16 ---------------------------------- *)

\* C16: createRoom puts a session in the registry with both seats unset, no
\* spectators and the starting position, sends roomCreated with its id to
\* the requester and to nobody else, and gives the requester no role: it is
\* in no seat of the session, is not among its spectators, and playerRooms
\* is left as it was.
C16_CreateSeatsNobody ==
    [][req'.op = "createRoom" =>
        /\ req'.roomId \in DOMAIN rooms'
        /\ rooms'[req'.roomId].players =
              [white |-> undefined, black |-> undefined]
        /\ rooms'[req'.roomId].spectators = << >>
        /\ rooms'[req'.roomId].game = Chess
        /\ outbox' = {Msg(req'.id, "roomCreated", [roomId |-> req'.roomId])}
        /\ req'.id \notin Occupants(rooms'[req'.roomId])
        /\ playerRooms' = playerRooms
    ]_vars

\* A session has just been created while another connection is open; its
\* creator has no entry in playerRooms.
C16_Witness ==
    /\ req.op = "createRoom"
    /\ req.roomId \in DOMAIN rooms
    /\ Occupants(rooms[req.roomId]) = {}
    /\ req.id \notin DOMAIN playerRooms
    /\ \E c \in SocketIds \ {req.id} : sockets[c] = "open"
    /\ outbox = {Msg(req.id, "roomCreated", [roomId |-> req.roomId])}

(* -------------------------------- C17 ---------------------------------- *)

\* The roles socket id has in the session stored under x in the registry rs.
RolesIn(rs, x, id) ==
    IF x \notin DOMAIN rs THEN {}
    ELSE {role \in {"white", "black", "spectator"} :
             \/ role = "white" /\ rs[x].players.white = id
             \/ role = "black" /\ rs[x].players.black = id
             \/ role = "spectator" /\ id \in Range(rs[x].spectators)}

\* The session a request names (createRoom, joinRoom, move) or the one its
\* connection is bound to (disconnect).
SessionOf(r) ==
    IF r.op = "disconnect" THEN playerRooms[r.id] ELSE r.roomId

\* C17: a request that names a session S, or whose connection is bound to
\* S, leaves every other session of the registry as it is (seats,
\* spectators and position) and changes the roles in S of no connection but
\* the requester.
C17_OnlyTheRequestersRoleInItsSession ==
    [][(\/ req'.op \in {"createRoom", "joinRoom", "move"}
        \/ (req'.op = "disconnect" /\ req'.id \in DOMAIN playerRooms))
          => LET S == SessionOf(req')
             IN  /\ \A x \in DOMAIN rooms \ {S} :
                       x \in DOMAIN rooms' /\ rooms'[x] = rooms[x]
                 /\ \A c \in SocketIds \ {req'.id} :
                       RolesIn(rooms', S, c) = RolesIn(rooms, S, c)
    ]_vars

(* -------------------------------- C18 ---------------------------------- *)

\* The colours of the seats the last handler assigned to its requester.
SeatsGiven(r, msgs) ==
    {m.data.color : m \in {n \in Of("playerJoined", msgs) :
                              n.to = r.id /\ n.data.playerId = r.id}}

\* C18: each handler runs as one step, so of two requests handled one right
\* after the other the second sees what the first wrote: two joins of
\* different connections to one session are never both given the same
\* seat, and of two moves accepted in a row in one session the second is
\* accepted on the position the first produced, for the seat of the side
\* that position gives the move to, never on the position the first was
\* played on.
C18_SecondRequestSeesTheFirst ==
    [][/\ (/\ req.op = "joinRoom"
           /\ req'.op = "joinRoom"
           /\ req'.roomId = req.roomId
           /\ req'.id # req.id)
          => /\ SeatsGiven(req, outbox) \cap SeatsGiven(req', outbox') = {}
             /\ \A c \in SeatsGiven(req, outbox) :
                   /\ req.roomId \in DOMAIN rooms'
                   /\ rooms'[req.roomId].players[c] = req.id
       /\ (/\ req.op = "move"
           /\ req'.op = "move"
           /\ req'.roomId = req.roomId
           /\ Of("moveMade", outbox) # {}
           /\ Of("moveMade", outbox') # {})
          => \A m1 \in Of("moveMade", outbox), m2 \in Of("moveMade", outbox') :
                /\ m1.data.turn \in SeatColours(rooms[req.roomId], req'.id)
                /\ Accepts(m1.data.fen, req'.from, req'.to)
                /\ m2.data.fen = AfterMove(m1.data.fen, req'.from, req'.to)
                /\ m2.data.turn # m1.data.turn
    ]_vars

\* Two connections hold the two seats of a session in which no move has
\* been played; the one that joined last is black and the other was told.
C18_Witness ==
    /\ req.op = "joinRoom"
    /\ req.roomId \in DOMAIN rooms
    /\ rooms[req.roomId].game = Chess
    /\ rooms[req.roomId].players.black = req.id
    /\ rooms[req.roomId].players.white \notin {undefined, req.id}
    /\ sockets[rooms[req.roomId].players.white] = "open"
    /\ Cardinality(outbox) = 2

(* -------------------------------- C19 ---------------------------------- *)

\* C19: when a connection that holds a seat in a session S1 sends createRoom
\* or joinRoom for another session, S1 stays in the registry exactly as it
\* was, the requester's seat included, nobody is sent playerLeft, and the
\* request has the outcome it has for a connection with no seat: createRoom
\* stores an empty session and replies roomCreated; joinRoom on an id not in
\* the registry replies the error only; joinRoom on a session of the
\* registry gives the requester the first free role there and replies with
\* it.
C19_SeatedElsewhereIsNotALeave ==
    [][\A S1 \in DOMAIN rooms :
        (/\ req'.op \in {"createRoom", "joinRoom"}
         /\ req'.id \in SeatHolders(rooms[S1])
         /\ req'.roomId # S1)
          => LET x == req'.roomId
                 id == req'.id
             IN  /\ S1 \in DOMAIN rooms'
                 /\ rooms'[S1] = rooms[S1]
                 /\ Of("playerLeft", outbox') = {}
                 /\ req'.op = "createRoom" =>
                       /\ x \in DOMAIN rooms'
                       /\ Occupants(rooms'[x]) = {}
                       /\ outbox' = {Msg(id, "roomCreated", [roomId |-> x])}
                 /\ (req'.op = "joinRoom" /\ x \notin DOMAIN rooms) =>
                       /\ x \notin DOMAIN rooms'
                       /\ outbox' = {Msg(id, "error",
                                         [message |-> "Room not found"])}
                 /\ (req'.op = "joinRoom" /\ x \in DOMAIN rooms) =>
                       LET role == IF rooms[x].players.white = undefined
                                   THEN "white"
                                   ELSE IF rooms[x].players.black = undefined
                                   THEN "black"
                                   ELSE "spectator"
                       IN  /\ RolesIn(rooms', x, id) =
                                 RolesIn(rooms, x, id) \cup {role}
                           /\ \E m \in outbox' :
                                 /\ m.to = id
                                 /\ IF role = "spectator"
                                    THEN m.event = "joinedAsSpectator"
                                    ELSE /\ m.event = "playerJoined"
                                         /\ m.data.color = role
    ]_vars

\* A connection seated in one session next to another connection has just
\* taken a seat in a second session; it is still seated in the first.
C19_Witness ==
    /\ req.op = "joinRoom"
    /\ \E S1 \in DOMAIN rooms \ {req.roomId} :
          /\ req.id \in SeatHolders(rooms[S1])
          /\ SeatHolders(rooms[S1]) \ {req.id} # {}
    /\ req.roomId \in DOMAIN rooms
    /\ req.id \in SeatHolders(rooms[req.roomId])
    /\ Of("playerJoined", outbox) # {}
    /\ Of("playerLeft", outbox) = {}

(* -------------------------------- C20 ---------------------------------- *)

\* C20: createRoom never returns the identifier of a session that is in the
\* registry at that moment, and so never replaces the seats, spectators or
\* position of an existing session.
C20_CreatedIdIsNotInRegistry ==
    [][req'.op = "createRoom" =>
        /\ req'.roomId \notin DOMAIN rooms
        /\ \A x \in DOMAIN rooms : x \in DOMAIN rooms' /\ rooms'[x] = rooms[x]
    ]_vars

(* -------------------------------- C21 ---------------------------------- *)

\* C21: in every session the accepted moves alternate between the two
\* seats, white first.  A session starts with white to move; its position
\* changes only in the step of a move request of a socket that holds the
\* seat of the side to move, and that step hands the move to the other
\* side; joins and departures leave the position and the side to move as
\* they are.  So after an accepted move of one seat the next accepted move
\* of the session is the other seat's.
C21_AcceptedMovesAlternate ==
    [][\A x \in DOMAIN rooms' :
        IF x \notin DOMAIN rooms \/ (req'.op = "createRoom" /\ req'.roomId = x)
        THEN turn(rooms'[x].game) = "w"
        ELSE \/ rooms'[x].game = rooms[x].game
             \/ /\ req'.op = "move"
                /\ req'.roomId = x
                /\ turn(rooms[x].game) \in SeatColours(rooms[x], req'.id)
                /\ turn(rooms'[x].game) # turn(rooms[x].game)
                /\ \E m \in Of("moveMade", outbox') :
                      m.data.turn = turn(rooms'[x].game)
    ]_vars

\* The third connection, seated as black after another connection had
\* left, has just had its reply to white's move accepted.
C21_Witness ==
    /\ req.op = "move"
    /\ req.id = "c3"
    /\ req.roomId \in DOMAIN rooms
    /\ rooms[req.roomId].players.black = "c3"
    /\ rooms[req.roomId].players.white # "c3"
    /\ \E c \in SocketIds : sockets[c] = "closed"
    /\ rooms[req.roomId].game.board["e4"] = "w"
    /\ rooms[req.roomId].game.board["e5"] = "b"
    /\ \E m \in Of("moveMade", outbox) : m.data.turn = "w"

(* -------------------------------- C22 ---------------------------------- *)

\* C22: a connection that is among a session's spectators stays among them
\* through every later request, its own disconnect included, and a session
\* that has a spectator stays in the registry.
C22_SpectatorIsNeverRemoved ==
    [][\A x \in DOMAIN rooms : \A c \in Range(rooms[x].spectators) :
          /\ x \in DOMAIN rooms'
          /\ c \in Range(rooms'[x].spectators)
    ]_vars

(* -------------------------------- C23 ---------------------------------- *)

\* C23: a seat that names a connection names it until the disconnect of
\* that same connection is handled, and an empty seat is filled only in the
\* step of a joinRoom for that session, by the requester: no join of
\* another connection overwrites a seat, and a spectator gets a seat only
\* by a join of its own.
C23_SeatHeldUntilOwnDisconnect ==
    [][\A x \in DOMAIN rooms : \A s \in {"white", "black"} :
          IF rooms[x].players[s] # undefined
          THEN \/ x \in DOMAIN rooms' /\
                  rooms'[x].players[s] = rooms[x].players[s]
               \/ req'.op = "disconnect" /\ req'.id = rooms[x].players[s]
          ELSE (x \in DOMAIN rooms' /\ rooms'[x].players[s] # undefined)
                  => /\ req'.op = "joinRoom"
                     /\ req'.roomId = x
                     /\ rooms'[x].players[s] = req'.id
    ]_vars

(* -------------------------------- C24 ---------------------------------- *)

\* The <<session, role>> pairs socket id has in the registry rs.
RolesOf(rs, id) ==
    {p \in (DOMAIN rs) \X {"white", "black", "spectator"} :
        p[2] \in RolesIn(rs, p[1], id)}

\* C24: the playerRooms entry of a connection is the session of its latest
\* seat: a joinRoom step that gives the requester a seat sets it to that
\* session, and no step but the connection's own disconnect changes it
\* otherwise.  Handling a disconnect clears at most one role of the
\* connection, and only in the session of that entry; every other role it
\* has, in that session or another, is there afterwards with its id.
C24_DisconnectClearsOneRoleAtMost ==
    [][/\ \A c \in SocketIds :
            IF /\ req'.op = "joinRoom"
               /\ req'.id = c
               /\ req'.roomId \in DOMAIN rooms
               /\ \E s \in {"white", "black"} :
                     /\ rooms[req'.roomId].players[s] # c
                     /\ rooms'[req'.roomId].players[s] = c
            THEN c \in DOMAIN playerRooms' /\ playerRooms'[c] = req'.roomId
            ELSE \/ req'.op = "disconnect" /\ req'.id = c
                 \/ /\ c \in DOMAIN playerRooms' <=> c \in DOMAIN playerRooms
                    /\ c \in DOMAIN playerRooms
                          => playerRooms'[c] = playerRooms[c]
       /\ req'.op = "disconnect" =>
            LET cleared == RolesOf(rooms, req'.id) \ RolesOf(rooms', req'.id)
            IN  /\ Cardinality(cleared) <= 1
                /\ \A p \in cleared :
                      /\ req'.id \in DOMAIN playerRooms
                      /\ p[1] = playerRooms[req'.id]
    ]_vars

\* A connection seated in both sessions has disconnected: its seat in r2,
\* where it was seated last, was cleared and announced, and r1 still names
\* it.
C24_Witness ==
    /\ req.op = "disconnect"
    /\ "r1" \in DOMAIN rooms
    /\ "r2" \in DOMAIN rooms
    /\ req.id \in SeatHolders(rooms["r1"])
    /\ req.id \notin Occupants(rooms["r2"])
    /\ Of("playerLeft", outbox) # {}

(* -------------------------------- C25 ---------------------------------- *)

====
